---- MODULE Spec2Model ----
(***************************************************************************)
(* A model of the chunked PDF-to-notes pipeline of lit-llmed:              *)
(*   - the chunker (ChunkedProcessor.split_into_chunks and                 *)
(*     ChunkedProcessor._split_long_content),                              *)
(*   - the model client (OllamaLLM._make_request, test_connection),        *)
(*   - the orchestration (process_pdf_chunked, process_folder_type, main). *)
(*                                                                         *)
(* Text is modelled at the level of words.  A text is a sequence of lines  *)
(* (what text.split('\n') followed by line.strip() yields), a line is the  *)
(* sequence of its whitespace-separated words (what line.split() yields),  *)
(* and a blank or whitespace-only line is the empty sequence.  A word is a *)
(* record [s |-> spelling, n |-> position of the occurrence in the text];  *)
(* the position makes every occurrence distinguishable, so that the        *)
(* properties about which words a chunk holds can be read off the chunks.  *)
(***************************************************************************)
EXTENDS Integers, Sequences, FiniteSets, TLC

VARIABLES
    \* ---- chunker (one ChunkedProcessor instance and one call) ----
    max_chunk_size,   \* self.max_chunk_size
    overlap_size,     \* self.overlap_size
    text,             \* the argument of split_into_chunks / the extracted text
    cpc,              \* position of the chunker run: "input", "chunked", "split"
    sections,         \* the sections split_into_chunks works on (after fallback)
    chunks,           \* the value returned by split_into_chunks
    parts,            \* the value returned by _split_long_content
    \* ---- model client (one call of OllamaLLM._make_request) ----
    stream,           \* what the server sends in answer to the request
    mpc,              \* position of the call: "request", "returned", "probed"
    response,         \* the value _make_request returns (or the exception)
    connected,        \* the value test_connection returns
    \* ---- pipeline (main, process_folder_type, process_pdf_chunked) ----
    pdf_files,        \* the PDF files of the category folder, in glob order
    pc,               \* position of main
    probes,           \* number of calls of test_connection
    probe_ok,         \* the value of the last call of test_connection
    doc,              \* index (1-based) of pdf_file in pdf_files
    attempted,        \* the indexes process_pdf_chunked was called with, in order
    outcome,          \* per finished document: "result", "absent" or "raised"
    chunk_index,      \* the loop index i of the summarization loop (1-based)
    chunk_summaries,  \* the local list chunk_summaries
    final_content,    \* the local final_content
    result,           \* the value process_pdf_chunked returned
    calls,            \* the model calls made for the current document, in order
    files,            \* the files written under the output folder
    escaped,          \* an exception has left process_folder_type
    \* ---- one call of _split_long_content, statement by statement ----
    split_words,      \* the local words (content.split())
    cur_start_idx,    \* the local start_idx
    cur_chunk_num,    \* the local chunk_num
    lpc               \* position of the call: "while", "return"

cvars == <<max_chunk_size, overlap_size, text, cpc, sections, chunks, parts>>
mvars == <<stream, mpc, response, connected>>
pvars == <<pdf_files, pc, probes, probe_ok, doc, attempted, outcome, chunk_index,
           chunk_summaries, final_content, result, calls, files, escaped>>

lvars == <<split_words, cur_start_idx, cur_chunk_num, lpc>>

vars == <<cvars, mvars, pvars, lvars>>

-----------------------------------------------------------------------------
(* Bounds of the model *)

MaxLines == 3      \* lines of an input text
MaxM == 3          \* small values of max_chunk_size: 1..MaxM
MaxOv == 3         \* small values of overlap_size: 0..MaxOv
MaxSplitWords == 12   \* texts of up to this many words are split with the small values
MaxFrames == 2     \* frames of a streamed answer
MaxPdfs == 2       \* PDF files in the category folder
MaxPages == 2      \* pages of a PDF file
MaxLoopWords == 6  \* words of a content split statement by statement

(* Program constants *)

DefaultMaxChunkSize == 800
DefaultOverlapSize == 100
HeaderMaxWords == 8
HeaderMaxChars == 100
SectionMinWords == 50

-----------------------------------------------------------------------------
(* Words and lines *)

\* Character-level facts of the spellings the inputs are built from.
CharLen(s) ==
    CASE s = "Intro" -> 5
      [] s = "word" -> 4
      [] s = "end" -> 3
      [] s = "end." -> 4
      [] s = "and," -> 4
      [] s = "ABSTRACT" -> 8
      [] s = "Supercalifragilistic..." -> 100   \* one token of 100 characters

\* any(c.isupper() for c in s)
HasUpper(s) == s \in {"Intro", "ABSTRACT", "Supercalifragilistic..."}

\* s != s.upper(): some character changes when upper-cased
HasLower(s) == s \in {"Intro", "word", "end", "end.", "and,", "Supercalifragilistic..."}

LastChar(s) ==
    CASE s = "end." -> "."
      [] s = "and," -> ","
      [] OTHER -> "x"

RECURSIVE SumCharLen(_)
SumCharLen(line) ==
    IF line = <<>> THEN 0 ELSE CharLen(Head(line).s) + SumCharLen(Tail(line))

\* len(line) of a stripped line whose words are separated by one blank each
LineLen(line) == IF line = <<>> THEN 0 ELSE SumCharLen(line) + (Len(line) - 1)

\* line.endswith(c)
EndsWith(line, c) == line # <<>> /\ LastChar(line[Len(line)].s) = c

\* The header heuristic of split_into_chunks.
is_potential_header(line) ==
    /\ Len(line) <= HeaderMaxWords
    /\ LineLen(line) < HeaderMaxChars
    /\ ~EndsWith(line, ".")
    /\ ~EndsWith(line, ",")
    /\ \E i \in 1..Len(line) : HasLower(line[i].s)
    /\ \E i \in 1..Len(line) : HasUpper(line[i].s)

\* ' '.join(lines).split(): the words of a list of lines, in order
RECURSIVE JoinWords(_)
JoinWords(lines) ==
    IF lines = <<>> THEN <<>> ELSE Head(lines) \o JoinWords(Tail(lines))

-----------------------------------------------------------------------------
(* Headers: 'Final Section', f'Section {i+1}', a header line of the text,   *)
(* each possibly suffixed with f" (Part {k})" (part = 0: no suffix).        *)

FinalHeader == [kind |-> "final", line |-> <<>>, idx |-> 0, part |-> 0]
SectionHeader(i) == [kind |-> "section", line |-> <<>>, idx |-> i, part |-> 0]
LineHeader(line) == [kind |-> "line", line |-> line, idx |-> 0, part |-> 0]
PartHeader(h, k) == [h EXCEPT !.part = k]

-----------------------------------------------------------------------------
(* split_into_chunks, step 1: the header-detection pass *)

\* The test that closes the current section on reading `line`.
\* A variant that closes a section from 50 words on.
ClosesSectionFromFifty(line, current_section) ==
    /\ is_potential_header(line)
    /\ current_section # <<>>
    /\ Len(JoinWords(current_section)) >= SectionMinWords

ClosesSection(line, current_section) ==
    /\ is_potential_header(line)
    /\ current_section # <<>>
    /\ Len(JoinWords(current_section)) > SectionMinWords

RECURSIVE HeaderLoop(_, _, _, _)
HeaderLoop(lines, i, secs, current_section) ==
    IF i > Len(lines)
    THEN [secs |-> secs, current |-> current_section]
    ELSE LET line == lines[i] IN
         IF line = <<>>
         THEN HeaderLoop(lines, i + 1, secs, current_section)
         ELSE IF ClosesSection(line, current_section)
              THEN HeaderLoop(lines, i + 1,
                              Append(secs, [header |-> LineHeader(line),
                                            content |-> JoinWords(current_section)]),
                              <<>>)
              ELSE HeaderLoop(lines, i + 1, secs, Append(current_section, line))

HeaderSections(t) ==
    LET r == HeaderLoop(t, 1, <<>>, <<>>) IN
    IF r.current # <<>>
    THEN Append(r.secs, [header |-> FinalHeader, content |-> JoinWords(r.current)])
    ELSE r.secs

(* split_into_chunks, step 2: the paragraph fallback.  re.split(r'\n\s*\n') *)
(* cuts the text at every run of one or more blank lines; a paragraph is a  *)
(* maximal run of non-blank lines, and empty paragraphs are dropped, but    *)
(* they are counted by enumerate.                                           *)

\* The paragraphs re.split yields, empty ones included.  `cur` is the list of
\* lines of the paragraph being read and `blanks` the number of blank lines
\* read since its last non-blank line.  k blank lines between two non-blank
\* lines are k+1 >= 2 newlines, hence one separator; k blank lines before the
\* first or after the last non-blank line are only k newlines, hence a
\* separator (and an empty paragraph beside it) only when k >= 2.
RECURSIVE ParaLoop(_, _, _, _, _)
ParaLoop(lines, i, paras, cur, blanks) ==
    IF i > Len(lines)
    THEN IF cur # <<>> /\ blanks >= 2 THEN paras \o <<cur, <<>>>>
         ELSE IF cur = <<>> /\ blanks >= 3 THEN paras \o <<cur, <<>>>>
         ELSE Append(paras, cur)
    ELSE IF lines[i] = <<>>
         THEN ParaLoop(lines, i + 1, paras, cur, blanks + 1)
         ELSE IF cur # <<>> /\ blanks >= 1
              THEN ParaLoop(lines, i + 1, Append(paras, cur), <<lines[i]>>, 0)
              ELSE IF cur = <<>> /\ blanks >= 2
                   THEN ParaLoop(lines, i + 1, Append(paras, <<>>), <<lines[i]>>, 0)
                   ELSE ParaLoop(lines, i + 1, paras, Append(cur, lines[i]), 0)

\* A variant that cuts the text at every line break.
ParagraphsPerLine(t) == [k \in 1..Len(t) |-> IF t[k] = <<>> THEN <<>> ELSE <<t[k]>>]

Paragraphs(t) == ParaLoop(t, 1, <<>>, <<>>, 0)

\* [{'header': f'Section {i+1}', 'content': p.strip()}
\*  for i, p in enumerate(paragraphs) if p.strip()]
RECURSIVE NumberParagraphs(_, _)
NumberParagraphs(paras, i) ==
    IF i > Len(paras) THEN <<>>
    ELSE IF paras[i] # <<>>
         THEN <<[header |-> SectionHeader(i), content |-> JoinWords(paras[i])]>>
              \o NumberParagraphs(paras, i + 1)
         ELSE NumberParagraphs(paras, i + 1)

FallbackSections(t) == NumberParagraphs(Paragraphs(t), 1)

\* A variant that keeps a single detected section instead of falling back.
UseFallbackOnlyWhenEmpty(secs) == Len(secs) < 1

\* if len(sections) <= 1: fall back to the paragraphs
UseFallback(secs) == Len(secs) <= 1

SectionsOf(t) ==
    IF UseFallback(HeaderSections(t)) THEN FallbackSections(t) ELSE HeaderSections(t)

-----------------------------------------------------------------------------
(* _split_long_content: the overlap-split of an oversized section *)

Min(a, b) == IF a <= b THEN a ELSE b
Max(a, b) == IF a >= b THEN a ELSE b

\* A variant that advances by a whole window, leaving no overlap.
NextStartNoOverlap(start_idx, M, ov) == Max(start_idx + M, start_idx + 1)

\* A variant without the guard against non-positive advancement.
NextStartUnguarded(start_idx, M, ov) == start_idx + M - ov

\* start_idx = max(start_idx + max_chunk_size - overlap_size, start_idx + 1)
NextStart(start_idx, M, ov) == Max(start_idx + M - ov, start_idx + 1)

\* A variant whose windows start one word late.
PartChunkStartsLate(words, start_idx, end_idx, base_header, chunk_num, made) ==
    LET chunk_words == SubSeq(words, start_idx + 2, end_idx) IN
    [chunk_id |-> Len(made),
     header |-> PartHeader(base_header, chunk_num),
     content |-> chunk_words,
     word_count |-> Len(chunk_words)]

\* One chunk of the overlap-split: words[start_idx:end_idx] (0-based, end
\* exclusive) is SubSeq(words, start_idx + 1, end_idx).
PartChunk(words, start_idx, end_idx, base_header, chunk_num, made) ==
    LET chunk_words == SubSeq(words, start_idx + 1, end_idx) IN
    [chunk_id |-> Len(made),
     header |-> PartHeader(base_header, chunk_num),
     content |-> chunk_words,
     word_count |-> Len(chunk_words)]

RECURSIVE SplitLoop(_, _, _, _, _, _, _)
SplitLoop(words, base_header, M, ov, start_idx, chunk_num, made) ==
    IF ~(start_idx < Len(words))
    THEN made
    ELSE LET end_idx == Min(start_idx + M, Len(words))
             made2 == Append(made, PartChunk(words, start_idx, end_idx,
                                             base_header, chunk_num, made))
         IN IF end_idx >= Len(words)
            THEN made2
            ELSE SplitLoop(words, base_header, M, ov,
                           NextStart(start_idx, M, ov), chunk_num + 1, made2)

split_long_content(content, base_header, M, ov) ==
    SplitLoop(content, base_header, M, ov, 0, 1, <<>>)

-----------------------------------------------------------------------------
(* split_into_chunks, step 3: size enforcement *)

\* The chunk of a section that fits.
WholeChunk(section, final_chunks) ==
    [chunk_id |-> Len(final_chunks),
     header |-> section.header,
     content |-> section.content,
     word_count |-> Len(section.content)]

\* A variant with an off-by-one size test.
FitsOffByOne(words, M) == Len(words) <= M + 1

\* len(words) <= self.max_chunk_size
Fits(words, M) == Len(words) <= M

RECURSIVE ChunkLoop(_, _, _, _, _)
ChunkLoop(secs, i, final_chunks, M, ov) ==
    IF i > Len(secs)
    THEN final_chunks
    ELSE IF Fits(secs[i].content, M)
         THEN ChunkLoop(secs, i + 1,
                        Append(final_chunks, WholeChunk(secs[i], final_chunks)), M, ov)
         ELSE ChunkLoop(secs, i + 1,
                        final_chunks \o split_long_content(secs[i].content,
                                                           secs[i].header, M, ov),
                        M, ov)

split_into_chunks(t, M, ov) == ChunkLoop(SectionsOf(t), 1, <<>>, M, ov)

-----------------------------------------------------------------------------
(* The model client: OllamaLLM._make_request.                               *)
(*                                                                          *)
(* A string is a sequence of characters, " " being the white space.  The    *)
(* answer of the server is a record                                         *)
(*   post: "ok", or "error" when requests.post or raise_for_status raises   *)
(*         a RequestException,                                              *)
(*   frames: the lines iter_lines yields,                                   *)
(*   end: "eof" when the stream ends after them, "error" when iter_lines    *)
(*        raises a RequestException after them.                             *)
(* A frame is a record [kind, content, done]:                               *)
(*   "blank"     an empty keep-alive line,                                  *)
(*   "message"   {"message": {"content": content}, "done": done},           *)
(*   "response"  {"response": content, "done": done},                       *)
(*   "other"     a JSON object with neither key, {"done": done},            *)
(*   "malformed" a line that is not JSON (json.JSONDecodeError),            *)
(*   "nonobject" a line that is JSON but no object, such as 5 (TypeError    *)
(*               on 'message' in data: caught by neither except clause).    *)

None == [tag |-> "none", val |-> <<>>]
Raised == [tag |-> "raise", val |-> <<>>]
Str(chars) == [tag |-> "text", val |-> chars]

RECURSIVE LStrip(_)
LStrip(chars) ==
    IF chars # <<>> /\ Head(chars) = " " THEN LStrip(Tail(chars)) ELSE chars

RECURSIVE RStrip(_)
RStrip(chars) ==
    IF chars # <<>> /\ chars[Len(chars)] = " "
    THEN RStrip(SubSeq(chars, 1, Len(chars) - 1)) ELSE chars

\* str.strip()
Strip(chars) == RStrip(LStrip(chars))

\* The text a frame adds to full_response.
FrameText(frame) ==
    IF frame.kind \in {"message", "response"} THEN frame.content ELSE <<>>

\* The loop over iter_lines ends without a break: the RequestException of a
\* broken stream gives None, the plain end gives what was accumulated.
AtEndOfStream(full_response, end) ==
    IF end = "error" THEN None ELSE Str(Strip(full_response))

RECURSIVE ReadLines(_, _, _, _)
ReadLines(frames, i, full_response, end) ==
    IF i > Len(frames)
    THEN AtEndOfStream(full_response, end)
    ELSE LET frame == frames[i] IN
         CASE frame.kind = "blank" -> ReadLines(frames, i + 1, full_response, end)
           [] frame.kind = "malformed" -> None
           [] frame.kind = "nonobject" -> Raised
           [] OTHER ->
                IF frame.done
                THEN Str(Strip(full_response \o FrameText(frame)))
                ELSE ReadLines(frames, i + 1, full_response \o FrameText(frame), end)

make_request(s) ==
    IF s.post = "error" THEN None ELSE ReadLines(s.frames, 1, <<>>, s.end)

\* test_connection: response is not None; any exception gives False
test_connection(s) ==
    LET r == make_request(s) IN
    IF r = Raised THEN FALSE ELSE r # None

(* Answers of the server *)

\* The frames whose text is one of `contents`.
FramesOver(contents) ==
    [kind : {"message", "response"}, content : contents, done : BOOLEAN]
        \cup [kind : {"other"}, content : {<<>>}, done : BOOLEAN]
        \cup [kind : {"blank", "malformed", "nonobject"}, content : {<<>>}, done : {FALSE}]

\* The answers of up to n frames.
StreamsOver(contents, n) ==
    [post : {"error"}, frames : {<<>>}, end : {"eof"}]
        \cup [post : {"ok"},
              frames : UNION { [1..k -> FramesOver(contents)] : k \in 0..n },
              end : {"eof", "error"}]

\* The answers the client is checked on: texts of one character.
ClientStreams == StreamsOver({<<"a">>, <<" ">>}, MaxFrames)

NoStream == [post |-> "error", frames |-> <<>>, end |-> "eof"]

-----------------------------------------------------------------------------
(* Inputs of the chunker *)

Repeat(sp, k) == [i \in 1..k |-> sp]

\* The spellings of the lines the input texts are made of.  Each conjunct of
\* the header heuristic decides at least one of them.
LineKinds ==
    { <<>>,                                        \* blank line
      <<"Intro">>,                                 \* header-like
      <<"Intro", "end.">>,                         \* ends with '.'
      <<"Intro", "and,">>,                         \* ends with ','
      <<"ABSTRACT">>,                              \* all upper case
      <<"word", "word", "end">>,                   \* no upper-case character
      <<"Supercalifragilistic...">>,               \* 100 characters
      <<"Intro">> \o Repeat("word", HeaderMaxWords),       \* 9 words
      Repeat("word", SectionMinWords),            \* a body of 50 words
      Repeat("word", SectionMinWords + 1) }        \* a body of 51 words

\* The words of a line of spellings, numbered from offset + 1.
TagLine(spellings, offset) ==
    [j \in 1..Len(spellings) |-> [s |-> spellings[j], n |-> offset + j]]

RECURSIVE TagLoop(_, _, _)
TagLoop(lines, i, offset) ==
    IF i > Len(lines) THEN <<>>
    ELSE <<TagLine(lines[i], offset)>> \o TagLoop(lines, i + 1, offset + Len(lines[i]))

\* A text: its words are numbered 1, 2, ... in reading order.
Tag(lines) == TagLoop(lines, 1, 0)

Texts == UNION { { Tag(t) : t \in [1..k -> LineKinds] } : k \in 0..MaxLines }

\* "Intro", a blank line, then 900 times "word" followed by "end"
ExampleText == Tag(<< <<"Intro">>, <<>>, Repeat("word", 900) \o <<"end">> >>)

SmallConfigs == (1..MaxM) \X (0..MaxOv)
DefaultConfig == <<DefaultMaxChunkSize, DefaultOverlapSize>>
\* A window of 50 words: a section of the header-detection pass (more than 50
\* words) is always oversized for it.
MidConfig == <<SectionMinWords, MaxOv>>

\* All the words of a text, in reading order.
AllWords(t) == JoinWords(t)

\* The parameters a text is chunked with: the default ones, the 50-word
\* window, and for a short text every small window and overlap (a long text
\* under a window of one to three words is nothing but more windows).
ConfigsFor(t) ==
    {DefaultConfig, MidConfig}
        \cup (IF Len(AllWords(t)) <= MaxSplitWords THEN SmallConfigs ELSE {})

-----------------------------------------------------------------------------
(* The chunker as a state machine: a ChunkedProcessor with its two          *)
(* parameters is given a text; split_into_chunks is applied to the text,    *)
(* or _split_long_content to the text's words under the header              *)
(* 'Final Section'.                                                         *)

\* main has not been started on any folder.
PipelineIdle ==
    /\ pdf_files = <<>>
    /\ pc = "idle"
    /\ probes = 0
    /\ probe_ok = FALSE
    /\ doc = 0
    /\ attempted = <<>>
    /\ outcome = <<>>
    /\ chunk_index = 0
    /\ chunk_summaries = <<>>
    /\ final_content = None
    /\ result = None
    /\ calls = <<>>
    /\ files = {}
    /\ escaped = FALSE

\* No call of the client is under way.
ClientIdle ==
    /\ stream = NoStream
    /\ mpc = "idle"
    /\ response = None
    /\ connected = FALSE

\* No chunker run is under way; the processor has its default parameters.
\* _split_long_content is not being stepped through.
LoopIdle ==
    /\ split_words = <<>>
    /\ cur_start_idx = 0
    /\ cur_chunk_num = 1
    /\ lpc = "idle"

ChunkerIdle ==
    /\ max_chunk_size = DefaultMaxChunkSize
    /\ overlap_size = DefaultOverlapSize
    /\ text = <<>>
    /\ cpc = "idle"
    /\ sections = <<>>
    /\ chunks = <<>>
    /\ parts = <<>>

ChunkInit ==
    /\ \/ /\ text \in Texts
          /\ \E c \in ConfigsFor(text) :
                max_chunk_size = c[1] /\ overlap_size = c[2]
       \/ /\ text = ExampleText
          /\ max_chunk_size = DefaultMaxChunkSize
          /\ overlap_size = DefaultOverlapSize
    /\ cpc = "input"
    /\ sections = <<>>
    /\ chunks = <<>>
    /\ parts = <<>>
    /\ ClientIdle
    /\ PipelineIdle
    /\ LoopIdle

SplitIntoChunks ==
    /\ cpc = "input"
    /\ cpc' = "chunked"
    /\ sections' = SectionsOf(text)
    /\ chunks' = split_into_chunks(text, max_chunk_size, overlap_size)
    /\ UNCHANGED <<max_chunk_size, overlap_size, text, parts>>
    /\ UNCHANGED <<mvars, pvars, lvars>>

SplitLongContent ==
    /\ cpc = "input"
    /\ cpc' = "split"
    /\ parts' = split_long_content(AllWords(text), FinalHeader,
                                   max_chunk_size, overlap_size)
    /\ UNCHANGED <<max_chunk_size, overlap_size, text, sections, chunks>>
    /\ UNCHANGED <<mvars, pvars, lvars>>

ChunkNext == SplitIntoChunks \/ SplitLongContent

SpecChunk == ChunkInit /\ [][ChunkNext]_vars

-----------------------------------------------------------------------------
(* _split_long_content statement by statement: one action per evaluation   *)
(* of the while condition.  The list chunks of the source is the variable  *)
(* parts; the base header is 'Final Section'.                              *)

\* The contents split: 0 to MaxLoopWords words.
LoopContents == { TagLine(Repeat("word", W), 0) : W \in 0..MaxLoopWords }

\* words = content.split(); chunks = []; start_idx = 0; chunk_num = 1
LoopInit ==
    /\ split_words \in LoopContents
    /\ \E c \in SmallConfigs : max_chunk_size = c[1] /\ overlap_size = c[2]
    /\ cur_start_idx = 0
    /\ cur_chunk_num = 1
    /\ lpc = "while"
    /\ text = <<>>
    /\ cpc = "idle"
    /\ sections = <<>>
    /\ chunks = <<>>
    /\ parts = <<>>
    /\ ClientIdle
    /\ PipelineIdle

\* The while condition holds: one run of the loop body, to the break or to
\* the end of the body.  (A content of W words has at most W windows; the
\* guard on chunk_num keeps the number of parts finite.)
LoopBody ==
    /\ lpc = "while"
    /\ cur_start_idx < Len(split_words)
    /\ cur_chunk_num <= MaxLoopWords + 1
    /\ LET end_idx == Min(cur_start_idx + max_chunk_size, Len(split_words)) IN
       /\ parts' = Append(parts, PartChunk(split_words, cur_start_idx, end_idx,
                                           FinalHeader, cur_chunk_num, parts))
       /\ IF end_idx >= Len(split_words)
          THEN /\ lpc' = "return"
               /\ UNCHANGED <<cur_start_idx, cur_chunk_num>>
          ELSE /\ cur_start_idx' = NextStart(cur_start_idx, max_chunk_size,
                                             overlap_size)
               /\ cur_chunk_num' = cur_chunk_num + 1
               /\ lpc' = "while"
    /\ UNCHANGED <<max_chunk_size, overlap_size, text, cpc, sections, chunks,
                   split_words>>
    /\ UNCHANGED <<mvars, pvars>>

\* The while condition fails: return chunks.
LoopExit ==
    /\ lpc = "while"
    /\ ~(cur_start_idx < Len(split_words))
    /\ lpc' = "return"
    /\ UNCHANGED <<cvars, mvars, pvars, split_words, cur_start_idx, cur_chunk_num>>

LoopNext == LoopBody \/ LoopExit

\* The call runs on as long as it has a statement to execute.
SpecLoop == LoopInit /\ [][LoopNext]_vars /\ WF_vars(LoopNext)

-----------------------------------------------------------------------------
(* The model client as a state machine: the server's answer to one request  *)
(* is fixed, then _make_request or test_connection runs on it.              *)

ClientInit ==
    /\ stream \in ClientStreams
    /\ mpc = "request"
    /\ response = None
    /\ connected = FALSE
    /\ ChunkerIdle
    /\ PipelineIdle
    /\ LoopIdle

MakeRequest ==
    /\ mpc = "request"
    /\ mpc' = "returned"
    /\ response' = make_request(stream)
    /\ UNCHANGED <<stream, connected>>
    /\ UNCHANGED <<cvars, pvars, lvars>>

TestConnection ==
    /\ mpc = "request"
    /\ mpc' = "probed"
    /\ connected' = test_connection(stream)
    /\ UNCHANGED <<stream, response>>
    /\ UNCHANGED <<cvars, pvars, lvars>>

ClientNext == MakeRequest \/ TestConnection

SpecClient == ClientInit /\ [][ClientNext]_vars

-----------------------------------------------------------------------------
(* The pipeline: main, process_folder_type, process_pdf_chunked.            *)
(*                                                                          *)
(* A PDF file is a record [readable, pages]: pdfplumber.open raises on an   *)
(* unreadable file; a page is the list of the lines page.extract_text()     *)
(* yields, <<>> for a page without text.                                    *)

\* text += page_text + "\n\n", for the pages that have text
RECURSIVE PageLoop(_, _, _)
PageLoop(pages, k, lines) ==
    IF k > Len(pages) THEN lines
    ELSE IF pages[k] # <<>>
         THEN PageLoop(pages, k + 1, lines \o pages[k] \o << <<>> >>)
         ELSE PageLoop(pages, k + 1, lines)

\* text.strip(), on lines: the leading and trailing blank lines go
RECURSIVE LStripLines(_)
LStripLines(lines) ==
    IF lines # <<>> /\ Head(lines) = <<>> THEN LStripLines(Tail(lines)) ELSE lines

RECURSIVE RStripLines(_)
RStripLines(lines) ==
    IF lines # <<>> /\ lines[Len(lines)] = <<>>
    THEN RStripLines(SubSeq(lines, 1, Len(lines) - 1)) ELSE lines

StripLines(lines) == RStripLines(LStripLines(lines))

\* extract_text_from_pdf: the stripped text, or None (no text, or an exception)
extract_text_from_pdf(pdf) ==
    IF ~pdf.readable THEN None
    ELSE LET t == StripLines(PageLoop(pdf.pages, 1, <<>>)) IN
         IF t # <<>> THEN Str(Tag(t)) ELSE None

\* Truth value of an Optional[str]: None and '' are false.
Truthy(x) == x # None /\ x.val # <<>>

\* if not text: return None
HasText(t) == Truthy(t)

\* A variant that keeps every summary, absent ones included.
SummaryOkAlways(summary) == TRUE

\* if summary: chunk_summaries.append(summary)
SummaryOk(summary) == Truthy(summary)

\* A variant that only tests for None.
HasFinalContentNotNone(content) == content # None

\* if final_content: (write the files, return the result)
HasFinalContent(content) == Truthy(content)

\* The marker 'FAILED' of the debug artifact.
Failed == Str(<<"FAILED">>)

\* The lines of the debug artifact:
\* chunk_summaries[i] if i < len(chunk_summaries) else 'FAILED'
DebugLines(chs, sums) ==
    [k \in 1..Len(chs) |->
        [header |-> chs[k].header,
         words |-> chs[k].word_count,
         summary |-> IF k - 1 < Len(sums) THEN sums[k] ELSE Failed]]

NoteFile(d, content) == [doc |-> d, kind |-> "note", content |-> content]
DebugFile(d, chs, sums) ==
    [doc |-> d, kind |-> "debug", content |-> DebugLines(chs, sums)]

\* The answers of the server to one request, the text of an answer being the
\* character c: the request is refused, the stream breaks or ends, a line is
\* malformed, or the answer is complete.
Replies(c) == { make_request(s) : s \in StreamsOver({<<c>>}, 1) }
ProbeAnswers == StreamsOver({<<"p">>}, 1)

(* Inputs of the pipeline *)

TextPage == << <<"word", "end.">> >>
Pdfs ==
    [readable : {FALSE}, pages : {<<>>}]
        \cup [readable : {TRUE},
              pages : UNION { [1..k -> {<<>>, TextPage}] : k \in 0..MaxPages }]

Folders == UNION { [1..k -> Pdfs] : k \in 0..MaxPdfs }

Init ==
    /\ pdf_files \in Folders
    /\ pc = "main"
    /\ probes = 0
    /\ probe_ok = FALSE
    /\ doc = 0
    /\ attempted = <<>>
    /\ outcome = <<>>
    /\ chunk_index = 0
    /\ chunk_summaries = <<>>
    /\ final_content = None
    /\ result = None
    /\ calls = <<>>
    /\ files = {}
    /\ escaped = FALSE
    /\ ChunkerIdle
    /\ ClientIdle
    /\ LoopIdle

\* The locals of process_pdf_chunked before a call.
ResetLocals ==
    /\ text' = <<>>
    /\ chunks' = <<>>
    /\ chunk_index' = 0
    /\ chunk_summaries' = <<>>
    /\ final_content' = None
    /\ result' = None
    /\ calls' = <<>>

\* A variant of main that goes on whatever the probe says.
MainIgnoresProbe ==
    /\ pc = "main"
    /\ \E s \in ProbeAnswers : probe_ok' = test_connection(s)
    /\ pc' = "folder"
    /\ probes' = probes + 1
    /\ UNCHANGED <<pdf_files, doc, attempted, outcome, chunk_index, chunk_summaries,
                   final_content, result, calls, files, escaped>>
    /\ UNCHANGED <<cvars, mvars, lvars>>

\* main: the connectivity probe, and the return when it fails
MainTestConnection ==
    /\ pc = "main"
    /\ \E s \in ProbeAnswers :
          /\ probe_ok' = test_connection(s)
          /\ pc' = IF test_connection(s) THEN "folder" ELSE "exit"
    /\ probes' = probes + 1
    /\ UNCHANGED <<pdf_files, doc, attempted, outcome, chunk_index, chunk_summaries,
                   final_content, result, calls, files, escaped>>
    /\ UNCHANGED <<cvars, mvars, lvars>>

\* process_folder_type up to the loop: the folder is listed
ProcessFolderType ==
    /\ pc = "folder"
    /\ IF pdf_files = <<>>
       THEN pc' = "exit" /\ doc' = doc
       ELSE pc' = "extract" /\ doc' = 1
    /\ UNCHANGED <<pdf_files, probes, probe_ok, attempted, outcome, chunk_index,
                   chunk_summaries, final_content, result, calls, files, escaped>>
    /\ UNCHANGED <<cvars, mvars, lvars>>

\* process_pdf_chunked up to the summarization loop: extraction and chunking
ExtractAndSplit ==
    /\ pc = "extract"
    /\ attempted' = Append(attempted, doc)
    /\ LET t == extract_text_from_pdf(pdf_files[doc]) IN
       IF ~HasText(t)
       THEN /\ result' = None
            /\ pc' = "returned"
            /\ UNCHANGED <<text, chunks, chunk_index, chunk_summaries>>
       ELSE /\ text' = t.val
            /\ chunks' = split_into_chunks(t.val, max_chunk_size, overlap_size)
            /\ chunk_summaries' = <<>>
            /\ chunk_index' = 1
            /\ pc' = IF chunks' = <<>> THEN "synthesize" ELSE "summarize"
            /\ result' = result
    /\ UNCHANGED <<pdf_files, probes, probe_ok, doc, outcome, final_content,
                   calls, files, escaped>>
    /\ UNCHANGED <<max_chunk_size, overlap_size, cpc, sections, parts>>
    /\ UNCHANGED <<mvars, lvars>>

\* One iteration of the summarization loop: summarize_chunk on chunks[i]
SummarizeChunk ==
    /\ pc = "summarize"
    /\ chunk_index <= Len(chunks)
    /\ \E summary \in Replies(ToString(chunk_index)) :
          /\ calls' = Append(calls, [kind |-> "summarize", chunk |-> chunk_index,
                                     arg |-> <<>>, res |-> summary])
          /\ IF summary = Raised
             THEN /\ pc' = "raised"
                  /\ UNCHANGED <<chunk_index, chunk_summaries>>
             ELSE /\ chunk_summaries' = IF SummaryOk(summary)
                                        THEN Append(chunk_summaries, summary)
                                        ELSE chunk_summaries
                  /\ chunk_index' = chunk_index + 1
                  /\ pc' = IF chunk_index + 1 > Len(chunks) THEN "synthesize" ELSE "summarize"
    /\ UNCHANGED <<pdf_files, probes, probe_ok, doc, attempted, outcome,
                   final_content, result, files, escaped>>
    /\ UNCHANGED <<cvars, mvars, lvars>>

\* process_pdf_chunked after the loop: the test for no summary, the
\* synthesis, the two files and the return value
Synthesize ==
    /\ pc = "synthesize"
    /\ IF chunk_summaries = <<>>
       THEN /\ result' = None
            /\ pc' = "returned"
            /\ UNCHANGED <<final_content, calls, files>>
       ELSE \E content \in Replies("n") :
               /\ calls' = Append(calls, [kind |-> "synthesize", chunk |-> 0,
                                          arg |-> chunk_summaries, res |-> content])
               /\ IF content = Raised
                  THEN /\ pc' = "raised"
                       /\ UNCHANGED <<final_content, result, files>>
                  ELSE /\ final_content' = content
                       /\ pc' = "returned"
                       /\ IF HasFinalContent(content)
                          THEN /\ files' = files \cup
                                     {NoteFile(doc, content),
                                      DebugFile(doc, chunks, chunk_summaries)}
                               /\ result' = [tag |-> "result",
                                             val |-> <<Len(chunks), Len(chunk_summaries)>>]
                          ELSE /\ files' = files
                               /\ result' = None
    /\ UNCHANGED <<pdf_files, probes, probe_ok, doc, attempted, outcome, chunk_index,
                   chunk_summaries, escaped>>
    /\ UNCHANGED <<cvars, mvars, lvars>>

\* The for loop of process_folder_type goes on with the next file, or ends.
NextFile ==
    IF doc < Len(pdf_files)
    THEN pc' = "extract" /\ doc' = doc + 1
    ELSE pc' = "exit" /\ doc' = doc

\* A variant of the handler that lets the exception end the loop.
FolderLoopExceptAbort ==
    /\ pc = "raised"
    /\ outcome' = Append(outcome, "raised")
    /\ pc' = "exit"
    /\ escaped' = TRUE
    /\ ResetLocals
    /\ UNCHANGED <<pdf_files, probes, probe_ok, doc, attempted, files>>
    /\ UNCHANGED <<max_chunk_size, overlap_size, cpc, sections, parts>>
    /\ UNCHANGED <<mvars, lvars>>

\* process_folder_type, the loop body after process_pdf_chunked returned
FolderLoopNext ==
    /\ pc = "returned"
    /\ outcome' = Append(outcome, IF result = None THEN "absent" ELSE "result")
    /\ NextFile
    /\ ResetLocals
    /\ UNCHANGED <<pdf_files, probes, probe_ok, attempted, files, escaped>>
    /\ UNCHANGED <<max_chunk_size, overlap_size, cpc, sections, parts>>
    /\ UNCHANGED <<mvars, lvars>>

\* process_folder_type, the except clause: the error is printed, continue
FolderLoopExcept ==
    /\ pc = "raised"
    /\ outcome' = Append(outcome, "raised")
    /\ NextFile
    /\ ResetLocals
    /\ UNCHANGED <<pdf_files, probes, probe_ok, attempted, files, escaped>>
    /\ UNCHANGED <<max_chunk_size, overlap_size, cpc, sections, parts>>
    /\ UNCHANGED <<mvars, lvars>>

Next ==
    \/ MainTestConnection
    \/ ProcessFolderType
    \/ ExtractAndSplit
    \/ SummarizeChunk
    \/ Synthesize
    \/ FolderLoopNext
    \/ FolderLoopExcept

Spec == Init /\ [][Next]_vars

-----------------------------------------------------------------------------
(* Properties of the chunker *)

\* The positions (in the text) of the words of a chunk.
Positions(content) == { content[j].n : j \in 1..Len(content) }

\* C1: every chunk returned by split_into_chunks holds at most max_chunk_size
\* words, and its word_count is the number of words of its content.
C1_ChunkWithinMax ==
    cpc = "chunked" =>
        \A i \in 1..Len(chunks) :
            /\ Len(chunks[i].content) <= max_chunk_size
            /\ chunks[i].word_count = Len(chunks[i].content)

\* C1 witness: a text was chunked into a section that fits and the parts of an
\* oversized one, one of them filled up to max_chunk_size.
C1_Witness ==
    /\ cpc = "chunked"
    /\ \E i, j, k \in 1..Len(chunks) :
          /\ chunks[i].header.part = 0
          /\ chunks[j].header.part > 0
          /\ chunks[k].word_count = max_chunk_size

\* C2: the chunk at position i (0-based) of the sequence split_into_chunks
\* returns has chunk_id = i, the parts of an oversized section included.
C2_ChunkIdIsPosition ==
    cpc = "chunked" => \A i \in 1..Len(chunks) : chunks[i].chunk_id = i - 1

\* The case of C3: more words than a window, and an overlap below the window.
OverlapCase ==
    /\ cpc = "split"
    /\ Len(AllWords(text)) > max_chunk_size
    /\ overlap_size < max_chunk_size

\* Chunks a and b share at least s words: for some j >= s the last j words of
\* a are the first j words of b.
SharesAtLeast(a, b, s) ==
    \E j \in s..Min(Len(a), Len(b)) :
        SubSeq(a, Len(a) - j + 1, Len(a)) = SubSeq(b, 1, j)

\* C3: for W > max_chunk_size words and 0 <= overlap < max_chunk_size, the
\* overlap-split covers every word position, two consecutive chunks share at
\* least min(overlap, words remaining after the earlier chunk) words, and the
\* last chunk ends at the last word.
C3_OverlapSplitCovers ==
    OverlapCase =>
        LET words == AllWords(text)
            W == Len(words)
        IN /\ parts # <<>>
           /\ \A p \in 1..W : \E k \in 1..Len(parts) : p \in Positions(parts[k].content)
           /\ \A k \in 1..(Len(parts) - 1) :
                 LET a == parts[k].content
                     b == parts[k + 1].content
                     remaining == W - a[Len(a)].n
                 IN SharesAtLeast(a, b, Min(overlap_size, remaining))
           /\ LET last == parts[Len(parts)].content
              IN last # <<>> /\ last[Len(last)] = words[W]

\* C3 witness: an overlap-split into three or more chunks with a real overlap.
C3_Witness ==
    /\ OverlapCase
    /\ overlap_size >= 1
    /\ Len(parts) >= 3

\* The example of C4: the default parameters and the example text.
ExampleCase ==
    /\ cpc = "chunked"
    /\ text = ExampleText
    /\ max_chunk_size = 800
    /\ overlap_size = 100

\* The 901 words of the example's second paragraph.
ExampleWords == ExampleText[3]

\* C4 as stated: the example yields exactly 2 chunks, words 1-800 under
\* "Final Section (Part 1)" and words 701-901 under "Final Section (Part 2)".
C4_ExampleTwoChunks ==
    ExampleCase =>
        /\ Len(chunks) = 2
        /\ chunks[1].header = PartHeader(FinalHeader, 1)
        /\ chunks[1].content = SubSeq(ExampleWords, 1, 800)
        /\ chunks[2].header = PartHeader(FinalHeader, 2)
        /\ chunks[2].content = SubSeq(ExampleWords, 701, 901)

\* C4 amended: the example yields exactly 3 chunks: "Intro" under "Section 1",
\* then words 1-800 of the second paragraph under "Section 2 (Part 1)" and its
\* words 701-901 under "Section 2 (Part 2)"; words 701-800 occur in both.
C4_ExampleThreeChunks ==
    ExampleCase =>
        /\ Len(chunks) = 3
        /\ chunks[1].header = SectionHeader(1)
        /\ chunks[1].content = ExampleText[1]
        /\ chunks[2].header = PartHeader(SectionHeader(2), 1)
        /\ chunks[2].content = SubSeq(ExampleWords, 1, 800)
        /\ chunks[3].header = PartHeader(SectionHeader(2), 2)
        /\ chunks[3].content = SubSeq(ExampleWords, 701, 901)
        /\ \A p \in 701..800 :
              /\ ExampleWords[p].n \in Positions(chunks[2].content)
              /\ ExampleWords[p].n \in Positions(chunks[3].content)

\* C4 witness: the example text has been chunked with the default parameters.
C4_Witness == ExampleCase /\ Len(chunks) > 0

\* The case of C11: a text without blank lines and without header-like
\* lines, of at most max_chunk_size words (a text has at least one line).
PlainTextCase ==
    /\ cpc = "chunked"
    /\ Len(text) >= 1
    /\ \A l \in 1..Len(text) : text[l] # <<>> /\ ~is_potential_header(text[l])
    /\ Len(AllWords(text)) <= max_chunk_size

\* C11: a text with no blank lines and no header-like lines, of at most
\* max_chunk_size words, goes through the paragraph fallback (its chunk is
\* labelled 'Section 1') and comes back as exactly one chunk, whose content
\* has the word sequence of the input.
C11_PlainTextIsOneChunk ==
    PlainTextCase =>
        /\ Len(chunks) = 1
        /\ chunks[1].header = SectionHeader(1)
        /\ chunks[1].content = AllWords(text)
        /\ chunks[1].word_count = Len(AllWords(text))

\* C11 witness: a plain text of several lines came back as one chunk.
C11_Witness ==
    /\ PlainTextCase
    /\ Len(text) >= 2
    /\ Len(chunks) = 1

\* The words of the lines of t strictly between lines a and b.
WordsBetween(t, a, b) == JoinWords(SubSeq(t, a + 1, b - 1))

\* The last line of Cl before line l, or 0.
LastBefore(Cl, l) ==
    LET B == { c \in Cl : c < l }
    IN IF B = {} THEN 0 ELSE CHOOSE c \in B : \A d \in B : d <= c

\* The closing lines of a text, as C13 describes them: the potential-header
\* lines read while the body accumulated since the last closing line has
\* more than 50 words.
Closings(t) ==
    CHOOSE Cl \in SUBSET (1..Len(t)) :
        \A l \in 1..Len(t) :
            l \in Cl <=> /\ t[l] # <<>>
                         /\ is_potential_header(t[l])
                         /\ Len(WordsBetween(t, LastBefore(Cl, l), l)) > 50

\* The j-th closing line.
NthClosing(Cl, j) == CHOOSE c \in Cl : Cardinality({ d \in Cl : d <= c }) = j

\* The sections C13 describes for a text.
DescribedSections(t) ==
    LET Cl     == Closings(t)
        m      == Cardinality(Cl)
        closed == [j \in 1..m |->
                     LET c == NthClosing(Cl, j) IN
                     [header  |-> LineHeader(t[c]),
                      content |-> WordsBetween(t, LastBefore(Cl, c), c)]]
        rest   == WordsBetween(t, LastBefore(Cl, Len(t) + 1), Len(t) + 1)
    IN IF rest # <<>>
       THEN Append(closed, [header |-> FinalHeader, content |-> rest])
       ELSE closed

\* C13: the header pass closes a section exactly at a potential-header line
\* read while the accumulated body has more than 50 words; the section's
\* content is the lines accumulated before that line and its header label is
\* that line; a potential-header line read at 50 words or fewer stays in the
\* body; the trailing lines form a last section labelled 'Final Section'.
\* When the pass finds two sections or more, they are the sections chunked.
C13_HeaderPassSections ==
    cpc = "chunked" =>
        /\ HeaderSections(text) = DescribedSections(text)
        /\ Len(DescribedSections(text)) >= 2 => sections = DescribedSections(text)

\* C13 witness: a text whose header pass closed a section at a header line,
\* kept another header-like line in a body, and ended with a final section.
C13_Witness ==
    /\ cpc = "chunked"
    /\ Len(sections) >= 2
    /\ sections[1].header.kind = "line"
    /\ sections[Len(sections)].header = FinalHeader
    /\ \E l \in 1..Len(text) :
          /\ text[l] # <<>>
          /\ is_potential_header(text[l])
          /\ l \notin Closings(text)

\* One evaluation of the while condition of _split_long_content, as C14
\* describes it: a window is emitted as part chunk_num, the parts are
\* numbered 1, 2, ... without a gap, the loop stops exactly at the first
\* window that reaches the end of the words, and otherwise the cursor moves
\* forward by max_chunk_size - overlap_size, or by 1 if that is less than 1.
LoopStepAsDescribed ==
    lpc = "while" =>
        LET W       == Len(split_words)
            end_idx == Min(cur_start_idx + max_chunk_size, W)
            advance == IF max_chunk_size - overlap_size >= 1
                       THEN max_chunk_size - overlap_size ELSE 1
        IN /\ cur_start_idx < W =>
                 /\ Len(parts') = Len(parts) + 1
                 /\ SubSeq(parts', 1, Len(parts)) = parts
                 /\ parts'[Len(parts')].header = PartHeader(FinalHeader, Len(parts'))
                 /\ parts'[Len(parts')].content =
                        SubSeq(split_words, cur_start_idx + 1, end_idx)
           /\ lpc' = "return" <=> end_idx >= W
           /\ lpc' = "while" =>
                 /\ cur_start_idx' = cur_start_idx + advance
                 /\ cur_start_idx' >= cur_start_idx + 1
                 /\ cur_chunk_num' = cur_chunk_num + 1

\* C14: the overlap-split terminates for every content and every
\* max_chunk_size >= 1 and overlap_size >= 0, overlap_size >= max_chunk_size
\* included; each iteration advances the cursor by max_chunk_size -
\* overlap_size words but by no less than 1, the part numbers of the emitted
\* headers go up by exactly 1 from 1, and the loop stops at the first window
\* that reaches the end of the word sequence.
C14_OverlapSplitTerminates ==
    /\ [][LoopStepAsDescribed]_vars
    /\ <>(lpc = "return")

\* C14 witness: a split with an overlap no smaller than the window has
\* returned after three windows or more.
C14_Witness ==
    /\ lpc = "return"
    /\ overlap_size >= max_chunk_size
    /\ Len(parts) >= 3
    /\ parts[Len(parts)].header.part = Len(parts)

\* The positions of the words found in the content of some returned chunk.
InSomeContent == UNION { Positions(chunks[k].content) : k \in 1..Len(chunks) }

\* The positions of the words of the header lines kept as chunk labels.
InSomeLabel ==
    UNION { Positions(chunks[k].header.line) : k \in 1..Len(chunks) }

\* The contents keep the input order: the words of a content are in text
\* order, and so are the first words of the successive chunks.
ContentsInInputOrder ==
    /\ \A k \in 1..Len(chunks) :
          \A j \in 1..(Len(chunks[k].content) - 1) :
              chunks[k].content[j].n < chunks[k].content[j + 1].n
    /\ \A k \in 1..(Len(chunks) - 1) :
          chunks[k].content # <<>> /\ chunks[k + 1].content # <<>> =>
              chunks[k].content[1].n < chunks[k + 1].content[1].n

\* The header-detection path was taken: the header pass found two sections
\* or more.
HeaderPath == Len(HeaderSections(text)) >= 2

\* C15 as stated: split_into_chunks loses no text; every word of every
\* non-blank line is, in input order, in the content of at least one
\* returned chunk, on the header-detection path and on the fallback path.
C15_NoWordLost ==
    cpc = "chunked" =>
        /\ InSomeContent = Positions(AllWords(text))
        /\ ContentsInInputOrder

\* C15 amended: every word of every non-blank line is, in input order, in
\* the content of at least one returned chunk, except the words of the header
\* lines that closed a section on the header-detection path: such a line is
\* in no content and is kept only as the header label of the chunks made
\* from the section it closed.  On the fallback path no word is left out.
C15_NoWordLostButClosingHeaders ==
    cpc = "chunked" =>
        LET closing == IF HeaderPath THEN Closings(text) ELSE {}
            dropped == UNION { Positions(text[l]) : l \in closing }
        IN /\ InSomeContent = Positions(AllWords(text)) \ dropped
           /\ HeaderPath => InSomeLabel = dropped
           /\ ~HeaderPath => InSomeLabel = {}
           /\ \A j \in 1..Len(sections) :
                 sections[j].header.kind = "line" =>
                     \E k \in 1..Len(chunks) :
                         /\ chunks[k].header.line = sections[j].header.line
                         /\ Positions(chunks[k].content)
                                \subseteq Positions(sections[j].content)
           /\ ContentsInInputOrder

\* C15 witness: a text chunked on the header-detection path, with a header
\* line that closed a section and is in no content.
C15_Witness ==
    /\ cpc = "chunked"
    /\ HeaderPath
    /\ Len(chunks) >= 2
    /\ InSomeLabel # {}
    /\ InSomeLabel \cap InSomeContent = {}
    /\ InSomeContent # {}

-----------------------------------------------------------------------------
(* Properties of the pipeline *)

\* A model call succeeded: it returned a non-empty text.
Succeeded(call) == call.res.tag = "text" /\ call.res.val # <<>>

SummarizeCalls(cs) == SelectSeq(cs, LAMBDA c : c.kind = "summarize")
SynthesizeCalls(cs) == SelectSeq(cs, LAMBDA c : c.kind = "synthesize")

\* The summaries of the successful summarizations among cs, in call order.
SuccessfulSummaries(cs) ==
    LET good == SelectSeq(SummarizeCalls(cs), Succeeded)
    IN [k \in 1..Len(good) |-> good[k].res]

\* The files written for the current document.
FilesOfDoc == { f \in files : f.doc = doc }

\* process_pdf_chunked has returned for a document that was split into chunks.
ReturnedAfterSplit == pc = "returned" /\ chunks # <<>>

\* C5: the list passed to synthesize_summaries holds exactly the successful
\* summaries, in chunk order, and is passed after all N chunks were tried;
\* with K >= 1 successes synthesis is called and, if it succeeds, the note
\* is written; with K = 0 synthesis is never called and no note is written.
C5_SynthesisGetsSuccessfulSummaries ==
    /\ \A k \in 1..Len(calls) :
          calls[k].kind = "synthesize" =>
              /\ calls[k].arg = SuccessfulSummaries(SubSeq(calls, 1, k - 1))
              /\ Len(SummarizeCalls(SubSeq(calls, 1, k - 1))) = Len(chunks)
    /\ ReturnedAfterSplit =>
          LET K == Len(SuccessfulSummaries(calls))
              syn == SynthesizeCalls(calls)
          IN /\ K = 0 => (syn = <<>> /\ FilesOfDoc = {})
             /\ K >= 1 =>
                   /\ Len(syn) = 1
                   /\ Succeeded(syn[1]) =>
                         \E f \in FilesOfDoc : f.kind = "note" /\ f.content = syn[1].res

\* C5 witness: of two chunks the first failed, and the note was written from
\* the one summary of the second.
C5_Witness ==
    /\ ReturnedAfterSplit
    /\ Len(chunks) = 2
    /\ ~Succeeded(calls[1])
    /\ Len(SuccessfulSummaries(calls)) = 1
    /\ \E f \in FilesOfDoc : f.kind = "note"

\* C6: the debug artifact records every chunk i with its header, its word
\* count and the summary produced for chunk i, and with 'FAILED' if and only
\* if the summarization of chunk i failed.
C6_DebugKeepsSummariesAttached ==
    pc = "returned" =>
        \A f \in FilesOfDoc :
            f.kind = "debug" =>
                /\ Len(f.content) = Len(chunks)
                /\ \A k \in 1..Len(chunks) :
                      LET call == SummarizeCalls(calls)[k] IN
                      /\ f.content[k].header = chunks[k].header
                      /\ f.content[k].words = chunks[k].word_count
                      /\ (f.content[k].summary = Failed) <=> ~Succeeded(call)
                      /\ Succeeded(call) => f.content[k].summary = call.res

\* The file has a page with a word on it and can be read.
HasWords(pdf) ==
    /\ pdf.readable
    /\ \E k \in 1..Len(pdf.pages) : \E l \in 1..Len(pdf.pages[k]) : pdf.pages[k][l] # <<>>

\* The three stages succeeded for the current document.
AllStagesSucceeded ==
    /\ HasWords(pdf_files[doc])
    /\ Len(SuccessfulSummaries(calls)) >= 1
    /\ \E k \in 1..Len(calls) : calls[k].kind = "synthesize" /\ Succeeded(calls[k])

BothFilesWritten ==
    /\ \E f \in FilesOfDoc : f.kind = "note"
    /\ \E f \in FilesOfDoc : f.kind = "debug"

\* C7: process_pdf_chunked returns absent and has written no file when the
\* extraction yields no text, every summarization fails or the synthesis
\* fails; it writes the note and the debug artifact and returns a result
\* only when the three stages succeeded (and no file exists before the
\* return).
C7_FilesOnlyOnFullSuccess ==
    /\ pc \in {"extract", "summarize", "synthesize", "raised"} => FilesOfDoc = {}
    /\ pc = "returned" =>
          IF AllStagesSucceeded
          THEN result # None /\ BothFilesWritten
          ELSE result = None /\ FilesOfDoc = {}

\* C7 witness: a first document got its two files, and the second returned
\* absent because its synthesis failed.
C7_Witness ==
    /\ pc = "returned"
    /\ doc = 2
    /\ outcome = <<"result">>
    /\ Cardinality(files) = 2
    /\ result = None
    /\ SynthesizeCalls(calls) # <<>>

\* C8: process_folder_type attempts every PDF of the folder exactly once, in
\* order; whatever happened to a document (absent result or exception), the
\* following ones are processed, and no exception leaves process_folder_type.
C8_EveryPdfAttemptedOnce ==
    /\ ~escaped
    /\ attempted = [k \in 1..Len(attempted) |-> k]
    /\ (pc = "exit" /\ probe_ok) =>
          /\ Len(attempted) = Len(pdf_files)
          /\ Len(outcome) = Len(pdf_files)

\* C8 witness: the first document raised an exception and the second got
\* its note.
C8_Witness ==
    /\ pc = "exit"
    /\ outcome = <<"raised", "result">>
    /\ \E f \in files : f.doc = 2

\* Some document processing has taken place.
ProcessingStarted ==
    \/ pc \in {"folder", "extract", "summarize", "synthesize", "returned", "raised"}
    \/ attempted # <<>>
    \/ calls # <<>>
    \/ files # {}
    \/ outcome # <<>>

\* C9: main runs the connectivity probe exactly once and before any
\* processing; after a failed probe nothing is extracted, no model call is
\* made and no file is written.
C9_ProbeOnceBeforeProcessing ==
    /\ probes <= 1
    /\ pc # "main" => probes = 1
    /\ ProcessingStarted => (probes = 1 /\ probe_ok)
    /\ (probes = 1 /\ ~probe_ok) => (pc = "exit" /\ ~ProcessingStarted)

\* C9 witness: the probe failed with files waiting in the folder, and main
\* returned.
C9_Witness ==
    /\ pc = "exit"
    /\ probes = 1
    /\ ~probe_ok
    /\ pdf_files # <<>>

-----------------------------------------------------------------------------
(* Properties of the model client *)

\* The index of the frame at which the server signals completion: the first
\* frame with done = true that the client gets to read (0 if there is none:
\* the request failed, or a malformed or non-object line comes first, or the
\* stream ends or breaks before any done frame).
RECURSIVE CompletionFrame(_, _)
CompletionFrame(frames, i) ==
    IF i > Len(frames) THEN 0
    ELSE IF frames[i].kind \in {"malformed", "nonobject"} THEN 0
    ELSE IF frames[i].done THEN i
    ELSE CompletionFrame(frames, i + 1)

Completion(s) == IF s.post = "error" THEN 0 ELSE CompletionFrame(s.frames, 1)

\* The concatenation of the content of frames 1..d.
RECURSIVE ContentUpTo(_, _)
ContentUpTo(frames, d) ==
    IF d = 0 THEN <<>>
    ELSE ContentUpTo(frames, d - 1)
            \o (IF frames[d].kind \in {"message", "response"}
                THEN frames[d].content ELSE <<>>)

\* The answers C10 speaks of: content frames, malformed lines, transport
\* errors and streams that end, but no JSON line that is not an object.
NamedAnswer(s) == \A i \in 1..Len(s.frames) : s.frames[i].kind # "nonobject"

\* C10: _make_request returns a text only once the server signalled
\* completion, and then the concatenation of the content of the frames up to
\* and including the first done frame (surrounding white space stripped); in
\* every other case (transport error, malformed frame, stream that ends
\* without a completion frame) it returns the failure signal and no partial
\* text.
C10_TextOnlyOnCompletion ==
    (mpc = "returned" /\ NamedAnswer(stream)) =>
        IF Completion(stream) > 0
        THEN response = Str(Strip(ContentUpTo(stream.frames, Completion(stream))))
        ELSE response = None

\* C12: within one document the model is called once per chunk, in chunk
\* order, one call at a time; a failed summarization of chunk i never stops
\* the loop, so the loop is left only when all N chunks have been attempted;
\* the synthesis call is made at most once and only after those N attempts.
C12_FailureNeverStopsLoop ==
    LET sm == SummarizeCalls(calls) IN
    /\ Len(sm) <= Len(chunks)
    /\ \A k \in 1..Len(sm) : sm[k].chunk = k
    /\ Len(SynthesizeCalls(calls)) <= 1
    /\ \A k \in 1..Len(calls) :
          calls[k].kind = "synthesize" => k = Len(chunks) + 1
    /\ pc # "summarize" => Len(sm) = Len(chunks)

=============================================================================
